---- MODULE Spec2Model ----
(***************************************************************************)
(* A model of swimmer's object pool: PoolBuilder (src/src/builder.rs),     *)
(* Pool and Recycled (src/src/lib.rs) and the Recyclable implementation    *)
(* for String (src/src/recyclable.rs).                                     *)
(*                                                                         *)
(* An object is a record [id, val, by]: val is the String's content; id    *)
(* and by are ghost fields (the identity of the allocation, and who        *)
(* constructed it: "new" for Recyclable::new, "supplier" for the supplier  *)
(* closure, "item" for an item given to build_with, "attach" for a value   *)
(* given to attach).                                                       *)
(***************************************************************************)
EXTENDS Integers, Sequences, FiniteSets, TLC

VARIABLES
    pc,        \* "builder": a PoolBuilder is being configured; "pool": built
    settings,  \* PoolBuilder { starting_size, supplier }
    values,    \* ThreadLocal<RefCell<Vec<T>>>: thread -> Vec, for the threads that have a cell
    handles,   \* the live Recycled handles, each by the object it owns
    raw,       \* the values detached() handed out that their callers still hold
    nextId,    \* ghost: the identity of the next object constructed
    seed,      \* ghost: the items the pool was built with
    count,     \* ghost: the calls of the supplier and of Recyclable::new so far
    last,      \* ghost: the operation that ran last, and the run it belongs to
    cycle,     \* the threads of a run of get-and-drop cycles, and where each is
    borrow,    \* RefCell: the borrow flag of each thread's cell (0 free, -1 mutably borrowed)
    calls,     \* thread -> the calls of the pool that wait in create() for the supplier
    panic      \* thread -> the message it panicked with, "none" while it runs

vars == <<pc, settings, values, handles, raw, nextId, seed, count, last, cycle,
          borrow, calls, panic>>

(* Bounds of the model: the largest starting size configured, the most     *)
(* items given to build_with, the number of objects up to which get,       *)
(* detached and attach may still construct or admit one more, and the      *)
(* longest content a String is grown to.                                   *)
MaxStartingSize == 2
MaxItems == 2
MaxObjects == 2
MaxValLen == 4
MaxCycles == 2

(* Two threads share the pool: the one that configures the builder and     *)
(* builds the pool, and another one.                                       *)
Main == "main"
Threads == {Main, "worker"}
NoThread == "none"

(* The supplier a caller configures: || String::from("test"). *)
Suppliers == {"from_test"}

(* Suppliers that call into the pool they construct for (a static pool),   *)
(* on the thread they run on, before they return String::from("test"):     *)
(* pool.size(); drop(pool.get()); drop(pool.attach(String::new())).        *)
ReSuppliers == {"calls_size", "calls_get", "calls_drop"}

(* What callers hand in (build_with's items, attach's value) and what they *)
(* push through a handle.                                                  *)
ItemVals == <<"a", "b", "c", "d">>
AttachVals == {"ten"}
PushVals == {"bla"}

NoObj == [id |-> 0, val |-> "", by |-> "none"]
NoVal == "<none>"

(***************************************************************************)
(* Recyclable for String                                                   *)
(***************************************************************************)
Recyclable_new == ""

recycle(value) == [value EXCEPT !.val = ""]

(***************************************************************************)
(* PoolBuilder                                                             *)
(***************************************************************************)
PoolBuilder_default == [starting_size |-> 0, supplier |-> "None"]

call_supplier(supplier) == "test"

init == <<>>

(* get_or whose new cell starts as a copy of the building thread's storage. *)
get_or_shared(vals, t) ==
    IF t \in DOMAIN vals THEN vals
    ELSE vals @@ (t :> IF Main \in DOMAIN vals THEN vals[Main] ELSE init)

(* ThreadLocal::get_or(|| init()): the calling thread's cell, made on first use. *)
get_or(vals, t) == IF t \in DOMAIN vals THEN vals ELSE vals @@ (t :> init)

(* values.get_or(|| init()).borrow_mut().push(value) *)
push(vals, t, value) == [get_or(vals, t) EXCEPT ![t] = Append(@, value)]

(* build_fresh with the supplier forgotten. *)
build_fresh_new(st, id) ==
    [id |-> id, val |-> Recyclable_new, by |-> "new"]

(* The body of the fill loops of build and build_with. *)
build_fresh(st, id) ==
    IF st.supplier # "None"
    THEN [id |-> id, val |-> call_supplier(st.supplier), by |-> "supplier"]
    ELSE [id |-> id, val |-> Recyclable_new, by |-> "new"]

RECURSIVE fill(_, _, _, _, _)
(* for _ in 0..n { values.get_or(|| init()).borrow_mut().push(fresh) } *)
fill(vals, st, t, id, n) ==
    IF n = 0 THEN vals
    ELSE fill(push(vals, t, build_fresh(st, id)), st, t, id + 1, n - 1)

RECURSIVE push_items(_, _, _, _)
(* for itm in items { values.get_or(|| init()).borrow_mut().push(itm) } *)
push_items(vals, t, items, id) ==
    IF items = <<>> THEN vals
    ELSE push_items(push(vals, t, [id |-> id, val |-> Head(items), by |-> "item"]),
                    t, Tail(items), id + 1)

(* build with the loop one short: for _ in 1..starting_size. *)
build_values_short(st, t, id) ==
    fill(<<>>, st, t, id, IF st.starting_size > 0 THEN st.starting_size - 1 ELSE 0)

(* The values of the pool build() returns, built on thread t. *)
build_values(st, t, id) == fill(<<>>, st, t, id, st.starting_size)

(* build_with that adds starting_size fresh objects whatever it was given. *)
build_with_values_always_fill(st, t, items, id) ==
    fill(push_items(<<>>, t, items, id), st, t, id + Len(items), st.starting_size)

(* The values of the pool build_with(items) returns, built on thread t. *)
build_with_values(st, t, items, id) ==
    LET size == Len(items)
        seeded == push_items(<<>>, t, items, id)
    IN  IF size < st.starting_size
        THEN fill(seeded, st, t, id + size, st.starting_size - size)
        ELSE seeded

(***************************************************************************)
(* Pool                                                                    *)
(***************************************************************************)
(* Pool::size on thread t: the length of the calling thread's Vec. *)
size(vals, t) == Len(get_or(vals, t)[t])

(* Pool::create *)
create(st, id) ==
    IF st.supplier # "None"
    THEN [id |-> id, val |-> call_supplier(st.supplier), by |-> "supplier"]
    ELSE [id |-> id, val |-> Recyclable_new, by |-> "new"]

(* return_value without the reset. *)
return_value_norecycle(vals, t, value) == push(vals, t, value)

(* return_value of a pool capped at its starting size. *)
return_value_capped(vals, t, value) ==
    IF size(vals, t) < settings.starting_size
    THEN push(vals, t, recycle(value))
    ELSE get_or(vals, t)

(* return_value that resets a value by asking the supplier for its content. *)
return_value_resupply(vals, t, value) ==
    push(vals, t, IF settings.supplier # "None"
                  THEN [value EXCEPT !.val = call_supplier(settings.supplier)]
                  ELSE recycle(value))

(* return_value that hands the value back to the storage of the thread that *)
(* built the pool.                                                         *)
return_value_home(vals, t, value) == push(vals, Main, recycle(value))

(* return_value that resets only the values the pool constructed, and     *)
(* stores an attached value as it is.                                      *)
return_value_own(vals, t, value) ==
    push(vals, t, IF value.by = "attach" THEN value ELSE recycle(value))

(* Pool::return_value *)
return_value(vals, t, value) == push(vals, t, recycle(value))

(* get_raw_value that reads the top of the storage and leaves it there. *)
get_raw_value_peek(vals, st, t, id) ==
    LET cell == get_or(vals, t)
    IN  IF cell[t] # <<>>
        THEN [value |-> cell[t][Len(cell[t])], values |-> cell, hit |-> TRUE]
        ELSE [value |-> create(st, id), values |-> cell, hit |-> FALSE]

(* get_raw_value that takes the oldest stored value: remove(0) for pop(). *)
get_raw_value_fifo(vals, st, t, id) ==
    LET cell == get_or(vals, t)
    IN  IF cell[t] # <<>>
        THEN [value |-> cell[t][1],
              values |-> [cell EXCEPT ![t] = SubSeq(@, 2, Len(@))],
              hit |-> TRUE]
        ELSE [value |-> create(st, id), values |-> cell, hit |-> FALSE]

(* get_raw_value that constructs a value whatever the storage holds. *)
get_raw_value_always_new(vals, st, t, id) ==
    [value |-> create(st, id), values |-> get_or(vals, t), hit |-> FALSE]

(* get_raw_value that takes a spare value of another thread's storage when *)
(* the caller's own is empty.                                              *)
get_raw_value_steal(vals, st, t, id) ==
    LET cell == get_or(vals, t)
        rich == {u \in DOMAIN cell : Len(cell[u]) > 0}
        from == IF Len(cell[t]) > 0 THEN t ELSE CHOOSE u \in rich : TRUE
    IN  IF rich # {}
        THEN [value |-> cell[from][Len(cell[from])],
              values |-> [cell EXCEPT ![from] = SubSeq(@, 1, Len(@) - 1)],
              hit |-> TRUE]
        ELSE [value |-> create(st, id), values |-> cell, hit |-> FALSE]

(* Pool::get_raw_value: the value returned, the storage left, and whether  *)
(* the pop found a value.                                                  *)
get_raw_value(vals, st, t, id) ==
    LET cell == get_or(vals, t)
    IN  IF cell[t] # <<>>
        THEN [value |-> cell[t][Len(cell[t])],
              values |-> [cell EXCEPT ![t] = SubSeq(@, 1, Len(@) - 1)],
              hit |-> TRUE]
        ELSE [value |-> create(st, id), values |-> cell, hit |-> FALSE]

(* The objects a storage holds. *)
objects(vals) == UNION {{vals[t][i] : i \in 1..Len(vals[t])} : t \in DOMAIN vals}

(* The ghost count after an operation that constructed the objects made:   *)
(* each is one call of the supplier or of Recyclable::new, by its tag;     *)
(* fresh counts the constructions on an empty storage.                     *)
Tally(made, fresh) ==
    [supplier |-> count.supplier + Cardinality({o \in made : o.by = "supplier"}),
     new |-> count.new + Cardinality({o \in made : o.by = "new"}),
     fresh |-> count.fresh + fresh]

(***************************************************************************)
(* The ghost record of the last operation.                                 *)
(*   op, t, obj, hit: the operation, its thread, the object it returned or *)
(*                    was given, as it was then, and whether               *)
(*                    get_raw_value popped a stored value;                 *)
(*   before:          size() of thread t before the operation;             *)
(*   run, base:       for get and drop, the number of consecutive          *)
(*                    operations of this kind on this thread ending here,  *)
(*                    and size() of the thread before the first of them;   *)
(*   first:           for get, whether that run began right after the pool *)
(*                    was built on this thread;                            *)
(*   bal:             for drop, size() of the thread before the get, when  *)
(*                    the operation before was this thread's get of the    *)
(*                    handle dropped; -1 otherwise;                        *)
(*   was:             for get, the content the object returned had when    *)
(*                    its handle was dropped, when the operation before    *)
(*                    was this thread's drop of it; NoVal otherwise;       *)
(*   got:             for drop, the thread whose get returned the handle   *)
(*                    dropped, when that get was the operation before;     *)
(*                    NoThread otherwise;                                  *)
(*   stack:           for drop, the objects dropped in this run, in order; *)
(*                    for get, those of the run of drops on this thread    *)
(*                    that the run of gets followed.                       *)
(***************************************************************************)
Record(op, t, obj, hit) ==
    LET cont == last.op = op /\ last.t = t
        counted == op \in {"get", "drop"}
    IN  [op |-> op, t |-> t, obj |-> obj, hit |-> hit,
         before |-> size(values, t),
         run |-> IF ~counted THEN 0 ELSE IF cont THEN last.run + 1 ELSE 1,
         base |-> IF ~counted THEN 0 ELSE IF cont THEN last.base ELSE size(values, t),
         first |-> /\ op = "get"
                   /\ IF cont THEN last.first
                      ELSE last.op \in {"build", "build_with"} /\ last.t = t,
         bal |-> IF op = "drop" /\ last.op = "get" /\ last.t = t /\ last.obj.id = obj.id
                 THEN last.before ELSE -1,
         was |-> IF op = "get" /\ last.op = "drop" /\ last.t = t /\ last.obj.id = obj.id
                 THEN last.obj.val ELSE NoVal,
         got |-> IF op = "drop" /\ last.op = "get" /\ last.obj.id = obj.id
                 THEN last.t ELSE NoThread,
         stack |-> IF op = "drop"
                   THEN (IF cont THEN Append(last.stack, obj.id) ELSE <<obj.id>>)
                   ELSE IF op = "get" /\ (cont \/ (last.op = "drop" /\ last.t = t))
                   THEN last.stack
                   ELSE <<>>]

Init ==
    /\ pc = "builder"
    /\ settings = PoolBuilder_default
    /\ values = <<>>
    /\ handles = {}
    /\ raw = {}
    /\ nextId = 1
    /\ seed = <<>>
    /\ count = [supplier |-> 0, new |-> 0, fresh |-> 0]
    /\ cycle = [on |-> FALSE, m |-> 0,
                left |-> [t \in Threads |-> 0],
                held |-> [t \in Threads |-> 0],
                start |-> [t \in Threads |-> 0]]
    /\ borrow = [t \in Threads |-> 0]
    /\ calls = [t \in Threads |-> <<>>]
    /\ panic = [t \in Threads |-> "none"]
    /\ last = [op |-> "builder", t |-> NoThread, obj |-> NoObj, hit |-> FALSE, before |-> 0,
               run |-> 0, base |-> 0, first |-> FALSE, bal |-> -1, was |-> NoVal,
               got |-> NoThread, stack |-> <<>>]

(* PoolBuilder::with_starting_size *)
with_starting_size(starting_size) ==
    /\ pc = "builder"
    /\ settings' = [settings EXCEPT !.starting_size = starting_size]
    /\ UNCHANGED <<pc, values, handles, raw, nextId, seed, count, last>>

(* PoolBuilder::with_supplier *)
with_supplier(supplier) ==
    /\ pc = "builder"
    /\ settings' = [settings EXCEPT !.supplier = supplier]
    /\ UNCHANGED <<pc, values, handles, raw, nextId, seed, count, last>>

(* PoolBuilder::build, called on thread t *)
build(t) ==
    /\ pc = "builder"
    /\ pc' = "pool"
    /\ values' = build_values(settings, t, nextId)
    /\ nextId' = nextId + settings.starting_size
    /\ count' = Tally({o \in objects(values') : o.by # "item"}, 0)
    /\ last' = Record("build", t, NoObj, FALSE)
    /\ UNCHANGED <<settings, handles, raw, seed>>

(* PoolBuilder::build_with, called on thread t *)
build_with(t, items) ==
    /\ pc = "builder"
    /\ pc' = "pool"
    /\ values' = build_with_values(settings, t, items, nextId)
    /\ nextId' = nextId + (IF Len(items) < settings.starting_size
                           THEN settings.starting_size ELSE Len(items))
    /\ seed' = items
    /\ count' = Tally({o \in objects(values') : o.by # "item"}, 0)
    /\ last' = Record("build_with", t, NoObj, FALSE)
    /\ UNCHANGED <<settings, handles, raw>>

(* Pool::new: builder().build() *)
Pool_new(t) ==
    /\ settings = PoolBuilder_default
    /\ build(t)

(* Pool::with_size: builder().with_starting_size(size).build() *)
Pool_with_size(t, n) ==
    /\ pc = "builder"
    /\ settings = PoolBuilder_default
    /\ pc' = "pool"
    /\ settings' = [settings EXCEPT !.starting_size = n]
    /\ values' = build_values(settings', t, nextId)
    /\ nextId' = nextId + n
    /\ count' = Tally({o \in objects(values') : o.by # "item"}, 0)
    /\ last' = Record("build", t, NoObj, FALSE)
    /\ UNCHANGED <<handles, raw, seed>>

(* get that waits until no handle of the pool is held, as under one lock    *)
(* that a handle keeps for its lifetime.                                   *)
get_locked(t) ==
    /\ pc = "pool"
    /\ handles = {}
    /\ LET r == get_raw_value(values, settings, t, nextId)
       IN  /\ r.hit \/ nextId <= MaxObjects
           /\ values' = r.values
           /\ handles' = handles \cup {r.value}
           /\ nextId' = IF r.hit THEN nextId ELSE nextId + 1
           /\ count' = IF r.hit THEN count ELSE Tally({r.value}, 1)
           /\ last' = Record("get", t, r.value, r.hit)
    /\ UNCHANGED <<pc, settings, raw, seed>>

(* Pool::get on thread t *)
get(t) ==
    /\ pc = "pool"
    /\ LET r == get_raw_value(values, settings, t, nextId)
       IN  /\ r.hit \/ nextId <= MaxObjects
           /\ values' = r.values
           /\ handles' = handles \cup {r.value}
           /\ nextId' = IF r.hit THEN nextId ELSE nextId + 1
           /\ count' = IF r.hit THEN count ELSE Tally({r.value}, 1)
           /\ last' = Record("get", t, r.value, r.hit)
    /\ UNCHANGED <<pc, settings, raw, seed>>

(* Pool::size on thread t: a read, but for get_or making the thread's cell *)
Pool_size(t) ==
    /\ pc = "pool"
    /\ values' = get_or(values, t)
    /\ UNCHANGED <<pc, settings, handles, raw, nextId, seed, count, last>>

(* attach that stores the value at once. *)
attach_stored(t, v) ==
    /\ pc = "pool"
    /\ nextId <= MaxObjects
    /\ LET value == [id |-> nextId, val |-> v, by |-> "attach"]
       IN  /\ handles' = handles \cup {value}
           /\ values' = push(values, t, value)
           /\ last' = Record("attach", t, value, FALSE)
    /\ nextId' = nextId + 1
    /\ UNCHANGED <<pc, settings, raw, seed, count>>

(* Pool::attach on thread t, of a value the caller made *)
attach(t, v) ==
    /\ pc = "pool"
    /\ nextId <= MaxObjects
    /\ LET value == [id |-> nextId, val |-> v, by |-> "attach"]
       IN  /\ handles' = handles \cup {value}
           /\ last' = Record("attach", t, value, FALSE)
    /\ nextId' = nextId + 1
    /\ UNCHANGED <<pc, settings, values, raw, seed, count>>

(* Pool::attach on thread t, of a value detached() handed out earlier *)
attach_raw(t, value) ==
    /\ pc = "pool"
    /\ value \in raw
    /\ raw' = raw \ {value}
    /\ handles' = handles \cup {value}
    /\ last' = Record("attach", t, value, FALSE)
    /\ UNCHANGED <<pc, settings, values, nextId, seed, count>>

(* detached that leaves a handle behind: get() with the value copied out. *)
detached_kept(t) ==
    /\ pc = "pool"
    /\ LET r == get_raw_value(values, settings, t, nextId)
       IN  /\ r.hit \/ nextId <= MaxObjects
           /\ values' = r.values
           /\ raw' = raw \cup {r.value}
           /\ handles' = handles \cup {r.value}
           /\ nextId' = IF r.hit THEN nextId ELSE nextId + 1
           /\ count' = IF r.hit THEN count ELSE Tally({r.value}, 1)
           /\ last' = Record("detached", t, r.value, r.hit)
    /\ UNCHANGED <<pc, settings, seed>>

(* Pool::detached on thread t *)
detached(t) ==
    /\ pc = "pool"
    /\ LET r == get_raw_value(values, settings, t, nextId)
       IN  /\ r.hit \/ nextId <= MaxObjects
           /\ values' = r.values
           /\ raw' = raw \cup {r.value}
           /\ nextId' = IF r.hit THEN nextId ELSE nextId + 1
           /\ count' = IF r.hit THEN count ELSE Tally({r.value}, 1)
           /\ last' = Record("detached", t, r.value, r.hit)
    /\ UNCHANGED <<pc, settings, handles, seed>>

(* The caller drops a detached value: a plain drop of T. *)
drop_raw(t, value) ==
    /\ pc = "pool"
    /\ value \in raw
    /\ raw' = raw \ {value}
    /\ last' = Record("drop_raw", t, value, FALSE)
    /\ UNCHANGED <<pc, settings, values, handles, nextId, seed, count>>

(* DerefMut for Recycled: the holder pushes s onto the String. *)
deref_mut(h, s) ==
    /\ pc = "pool"
    /\ h \in handles
    /\ Len(h.val) + Len(s) <= MaxValLen
    /\ LET value == [h EXCEPT !.val = @ \o s]
       IN  /\ handles' = (handles \ {h}) \cup {value}
           /\ last' = Record("deref_mut", NoThread, value, FALSE)
    /\ UNCHANGED <<pc, settings, values, raw, nextId, seed, count>>

(* Drop for Recycled that returns a copy of the value and leaves the       *)
(* handle as it was.                                                       *)
Recycled_drop_keep(t, h) ==
    /\ pc = "pool"
    /\ h \in handles
    /\ values' = return_value(values, t, h)
    /\ last' = Record("drop", t, h, FALSE)
    /\ UNCHANGED <<pc, settings, handles, raw, nextId, seed, count>>

(* Drop for Recycled, run on thread t: the value is taken out of the       *)
(* handle (the slot left behind is never read again) and returned.         *)
Recycled_drop(t, h) ==
    /\ pc = "pool"
    /\ h \in handles
    /\ handles' = handles \ {h}
    /\ values' = return_value(values, t, h)
    /\ last' = Record("drop", t, h, FALSE)
    /\ UNCHANGED <<pc, settings, raw, nextId, seed, count>>

Items == {SubSeq(ItemVals, 1, n) : n \in 0..MaxItems}

Next ==
    \/ \E n \in 0..MaxStartingSize : with_starting_size(n) /\ UNCHANGED <<cycle, borrow, calls, panic>>
    \/ \E s \in Suppliers : with_supplier(s) /\ UNCHANGED <<cycle, borrow, calls, panic>>
    \/ build(Main) /\ UNCHANGED <<cycle, borrow, calls, panic>>
    \/ \E items \in Items : build_with(Main, items) /\ UNCHANGED <<cycle, borrow, calls, panic>>
    \/ Pool_new(Main) /\ UNCHANGED <<cycle, borrow, calls, panic>>
    \/ \E n \in 0..MaxStartingSize : Pool_with_size(Main, n) /\ UNCHANGED <<cycle, borrow, calls, panic>>
    \/ \E t \in Threads : get(t) /\ UNCHANGED <<cycle, borrow, calls, panic>>
    \/ \E t \in Threads : Pool_size(t) /\ UNCHANGED <<cycle, borrow, calls, panic>>
    \/ \E t \in Threads, v \in AttachVals : attach(t, v) /\ UNCHANGED <<cycle, borrow, calls, panic>>
    \/ \E t \in Threads, value \in raw : attach_raw(t, value) /\ UNCHANGED <<cycle, borrow, calls, panic>>
    \/ \E t \in Threads : detached(t) /\ UNCHANGED <<cycle, borrow, calls, panic>>
    \/ \E t \in Threads, value \in raw : drop_raw(t, value) /\ UNCHANGED <<cycle, borrow, calls, panic>>
    \/ \E h \in handles, s \in PushVals : deref_mut(h, s) /\ UNCHANGED <<cycle, borrow, calls, panic>>
    \/ \E t \in Threads, h \in handles : Recycled_drop(t, h) /\ UNCHANGED <<cycle, borrow, calls, panic>>

Spec == Init /\ [][Next]_vars

(***************************************************************************)
(* A run of cycles: every thread of Threads performs m times a get() and   *)
(* then the drop of the handle it got, against the one pool shared by      *)
(* reference (Pool<T>: Send + Sync); no handle passes to another thread.   *)
(*   cycle.on:       the threads have been started;                        *)
(*   cycle.m:        the cycles each thread performs;                      *)
(*   cycle.left[t]:  the cycles thread t has still to finish;              *)
(*   cycle.held[t]:  the object of the handle thread t holds, 0 for none;  *)
(*   cycle.start[t]: the length of thread t's storage when the run began.  *)
(***************************************************************************)
spawn(m) ==
    /\ pc = "pool"
    /\ ~cycle.on
    /\ cycle' = [on |-> TRUE, m |-> m,
                 left |-> [t \in Threads |-> m],
                 held |-> [t \in Threads |-> 0],
                 start |-> [t \in Threads |-> size(values, t)]]
    /\ UNCHANGED <<pc, settings, values, handles, raw, nextId, seed, count, last>>
    /\ UNCHANGED <<borrow, calls, panic>>

(* Thread t of the run calls get(). *)
thread_get(t) ==
    /\ cycle.on
    /\ cycle.left[t] > 0
    /\ cycle.held[t] = 0
    /\ get(t)
    /\ cycle' = [cycle EXCEPT !.held[t] = last'.obj.id]
    /\ UNCHANGED <<borrow, calls, panic>>

(* Thread t of the run drops the handle it holds. *)
thread_drop(t) ==
    /\ cycle.on
    /\ cycle.held[t] # 0
    /\ \E h \in handles :
           /\ h.id = cycle.held[t]
           /\ Recycled_drop(t, h)
    /\ cycle' = [cycle EXCEPT !.held[t] = 0, !.left[t] = @ - 1]
    /\ UNCHANGED <<borrow, calls, panic>>

NextCycles ==
    \/ \E n \in 0..MaxStartingSize : with_starting_size(n) /\ UNCHANGED <<cycle, borrow, calls, panic>>
    \/ \E s \in Suppliers : with_supplier(s) /\ UNCHANGED <<cycle, borrow, calls, panic>>
    \/ build(Main) /\ UNCHANGED <<cycle, borrow, calls, panic>>
    \/ \E items \in Items : build_with(Main, items) /\ UNCHANGED <<cycle, borrow, calls, panic>>
    \/ \E m \in 1..MaxCycles : spawn(m)
    \/ \E t \in Threads : thread_get(t)
    \/ \E t \in Threads : thread_drop(t)

SpecCycles == Init /\ [][NextCycles]_vars

(***************************************************************************)
(* Calls with a supplier that calls back into the pool. A get() or         *)
(* detached() that finds the caller's storage empty runs the supplier      *)
(* inside get_raw_value's expression                                       *)
(*   self.values.get_or(..).borrow_mut().pop().unwrap_or_else(|| create()) *)
(* whose RefMut temporary lives to the end of the expression: these steps  *)
(* follow the call from the pop to the supplier and back.                  *)
(*   calls[t]: the calls of thread t that wait for the supplier, innermost *)
(*             first: op is the call, at is "supplier" while the supplier  *)
(*             has its call into the pool still to make, "called" after it.*)
(***************************************************************************)
Idle(t) == calls[t] = <<>> /\ panic[t] = "none"

(* RefCell::borrow_mut and RefCell::borrow succeed on these flags, and     *)
(* panic on the others.                                                    *)
can_borrow_mut(flag) == flag = 0
can_borrow(flag) == flag >= 0

(* get_raw_value on thread t for the call op, up to the supplier: the cell *)
(* is borrowed mutably, pop() finds nothing, create() calls the supplier.  *)
get_raw_value_miss(t, op) ==
    /\ pc = "pool"
    /\ Idle(t)
    /\ settings.supplier # "None"
    /\ size(values, t) = 0
    /\ nextId <= MaxObjects
    /\ can_borrow_mut(borrow[t])
    /\ values' = get_or(values, t)
    /\ borrow' = [borrow EXCEPT ![t] = -1]
    /\ calls' = [calls EXCEPT ![t] = <<[op |-> op, at |-> "supplier"]>>]
    /\ UNCHANGED <<pc, settings, handles, raw, nextId, seed, count, last, cycle, panic>>

(* The supplier, run on thread t, makes its call into the pool: size()     *)
(* borrows the cell, get() and the drop of a handle borrow it mutably. A   *)
(* refused borrow panics: the thread unwinds, which drops the RefMut.      *)
supplier_calls(t) ==
    /\ pc = "pool"
    /\ calls[t] # <<>>
    /\ Head(calls[t]).at = "supplier"
    /\ settings.supplier \in ReSuppliers
    /\ LET reads == settings.supplier = "calls_size"
           ok == IF reads THEN can_borrow(borrow[t]) ELSE can_borrow_mut(borrow[t])
           r == get_raw_value(values, settings, t, nextId)
           made == [id |-> nextId, val |-> Recyclable_new, by |-> "attach"]
       IN  IF ~ok
           THEN /\ panic' = [panic EXCEPT ![t] = IF reads THEN "already mutably borrowed"
                                                           ELSE "already borrowed"]
                /\ calls' = [calls EXCEPT ![t] = <<>>]
                /\ borrow' = [borrow EXCEPT ![t] = 0]
                /\ UNCHANGED <<values, nextId>>
           ELSE /\ panic' = panic
                /\ CASE reads ->
                          /\ calls' = [calls EXCEPT ![t][1].at = "called"]
                          /\ UNCHANGED <<values, nextId, borrow>>
                     [] settings.supplier = "calls_drop" ->
                          /\ nextId <= MaxObjects
                          /\ values' = return_value(values, t, made)
                          /\ nextId' = nextId + 1
                          /\ calls' = [calls EXCEPT ![t][1].at = "called"]
                          /\ UNCHANGED borrow
                     [] settings.supplier = "calls_get" /\ r.hit ->
                          /\ values' = return_value(r.values, t, r.value)
                          /\ calls' = [calls EXCEPT ![t][1].at = "called"]
                          /\ UNCHANGED <<nextId, borrow>>
                     [] OTHER ->
                          /\ calls' = [calls EXCEPT
                                          ![t] = <<[op |-> "inner", at |-> "supplier"]>> \o @]
                          /\ borrow' = [borrow EXCEPT ![t] = -1]
                          /\ UNCHANGED <<values, nextId>>
    /\ UNCHANGED <<pc, settings, handles, raw, seed, count, last, cycle>>

(* The supplier returns its value to create(), and get_raw_value returns   *)
(* it to the call that waited; the RefMut is dropped. The value of a get() *)
(* is wrapped in a handle, that of detached() goes to the caller, and that *)
(* of a get() the supplier made goes to the handle the supplier drops.     *)
supplier_returns(t) ==
    /\ pc = "pool"
    /\ calls[t] # <<>>
    /\ Head(calls[t]).at = "called" \/ settings.supplier \notin ReSuppliers
    /\ nextId <= MaxObjects
    /\ LET f == Head(calls[t])
           value == create(settings, nextId)
           rest == Tail(calls[t])
       IN  /\ handles' = IF f.op = "get" THEN handles \cup {value} ELSE handles
           /\ raw' = IF f.op = "detached" THEN raw \cup {value} ELSE raw
           /\ values' = IF f.op = "inner" THEN return_value(values, t, value) ELSE values
           /\ last' = IF f.op = "inner" THEN last ELSE Record(f.op, t, value, FALSE)
           /\ calls' = [calls EXCEPT
                           ![t] = IF rest = <<>> THEN rest
                                  ELSE <<[Head(rest) EXCEPT !.at = "called"]>> \o Tail(rest)]
           /\ count' = Tally({value}, 1)
    /\ nextId' = nextId + 1
    /\ borrow' = [borrow EXCEPT ![t] = 0]
    /\ UNCHANGED <<pc, settings, seed, cycle, panic>>

NextReentrant ==
    \/ \E s \in Suppliers \cup ReSuppliers :
           with_supplier(s) /\ UNCHANGED <<cycle, borrow, calls, panic>>
    \/ \E items \in Items :
           build_with(Main, items) /\ UNCHANGED <<cycle, borrow, calls, panic>>
    \/ \E t \in Threads :
           /\ Idle(t)
           /\ size(values, t) > 0 \/ settings.supplier = "None"
           /\ get(t) /\ UNCHANGED <<cycle, borrow, calls, panic>>
    \/ \E t \in Threads :
           /\ Idle(t)
           /\ size(values, t) > 0 \/ settings.supplier = "None"
           /\ detached(t) /\ UNCHANGED <<cycle, borrow, calls, panic>>
    \/ \E t \in Threads, op \in {"get", "detached"} : get_raw_value_miss(t, op)
    \/ \E t \in Threads : supplier_calls(t)
    \/ \E t \in Threads : supplier_returns(t)
    \/ \E t \in Threads :
           Idle(t) /\ Pool_size(t) /\ UNCHANGED <<cycle, borrow, calls, panic>>
    \/ \E t \in Threads, h \in handles :
           Idle(t) /\ Recycled_drop(t, h) /\ UNCHANGED <<cycle, borrow, calls, panic>>

SpecReentrant == Init /\ [][NextReentrant]_vars

(***************************************************************************)
(* Properties                                                              *)
(***************************************************************************)
Stored(t) == get_or(values, t)[t]

StoredObjs == UNION {{Stored(t)[i] : i \in 1..Len(Stored(t))} : t \in Threads}

Ids(objs) == {o.id : o \in objs}

Max(a, b) == IF a < b THEN b ELSE a

(* What a fresh construction yields under the pool's settings. *)
FreshVal == IF settings.supplier # "None" THEN call_supplier(settings.supplier) ELSE Recyclable_new
FreshBy == IF settings.supplier # "None" THEN "supplier" ELSE "new"

(* A step that is the operation op: every operation but size() records itself. *)
IsStep(op) == last' # last /\ last'.op = op

(* C1: a pool built with starting size n and no supplier (build(),          *)
(* Pool::with_size(n), Pool::new() for n = 0) reports size() == n on the   *)
(* thread that built it, right after construction.                         *)
C1_BuildSize ==
    (last.op = "build" /\ settings.supplier = "None")
        => size(values, last.t) = settings.starting_size

C1_Witness ==
    /\ last.op = "build"
    /\ settings.supplier = "None"
    /\ settings.starting_size = 2
    /\ size(values, Main) = 2

(* C2 as stated: get() and then at once the drop of its handle, on one     *)
(* thread, leave size() as it was before the get(), whatever the storage   *)
(* held.                                                                   *)
C2_Original ==
    (last.op = "drop" /\ last.bal >= 0) => size(values, last.t) = last.bal

(* C2 amended: get() and then at once the drop of its handle, on one       *)
(* thread, leave size() as it was before the get() when the thread's       *)
(* storage held a value, and leave it 1 when the storage was empty.        *)
C2_Balance ==
    (last.op = "drop" /\ last.bal >= 0)
        => size(values, last.t) = IF last.bal > 0 THEN last.bal ELSE 1

C2_Witness ==
    /\ last.op = "drop"
    /\ last.bal > 0
    /\ size(values, last.t) = last.bal

(* C3: a releasing handle resets its object before it is pushed into the   *)
(* storage: no stored object carries what was written through a handle,    *)
(* and get() right after the drop of a written handle, on one thread,      *)
(* returns the object equal to Recyclable::new().                          *)
C3_ResetBeforeReuse ==
    /\ last.op = "drop" =>
            LET st == Stored(last.t)
            IN  /\ st # <<>>
                /\ st[Len(st)].id = last.obj.id
                /\ st[Len(st)].val = Recyclable_new
    /\ \A o \in StoredObjs :
            \/ o.val = Recyclable_new
            \/ o.by = "supplier" /\ o.val = FreshVal
            \/ o.by = "item" /\ o.id \in 1..Len(seed) /\ o.val = seed[o.id]
    /\ (last.op = "get" /\ last.was # NoVal) =>
            last.hit /\ last.obj.val = Recyclable_new

C3_Witness ==
    /\ last.op = "get"
    /\ last.hit
    /\ last.was = "bla"
    /\ last.obj.val = ""

(* C4: get() on a thread whose storage is non-empty removes the top of     *)
(* that storage and returns it, constructing nothing, so size() drops by   *)
(* one; on an empty storage size() stays 0 and one fresh object is         *)
(* constructed, by the supplier if one is configured, else by              *)
(* Recyclable::new().                                                      *)
C4_GetPops ==
    [][IsStep("get") =>
        LET t == last'.t
            st == get_or(values, t)[t]
        IN  /\ IF st # <<>>
               THEN /\ last'.hit
                    /\ size(values', t) = Len(st) - 1
                    /\ values'[t] = SubSeq(st, 1, Len(st) - 1)
                    /\ last'.obj = st[Len(st)]
                    /\ nextId' = nextId
               ELSE /\ ~last'.hit
                    /\ size(values', t) = 0
                    /\ nextId' = nextId + 1
                    /\ last'.obj = [id |-> nextId, val |-> FreshVal, by |-> FreshBy]
            /\ handles' = handles \cup {last'.obj}]_vars

C4_Witness ==
    /\ last.op = "get"
    /\ last.hit
    /\ last.before = 2
    /\ size(values, last.t) = 1

(* C5: the drop of a handle raises the dropping thread's size() by exactly *)
(* one, whatever the starting size; h drops in a row on one thread raise   *)
(* it by h.                                                                *)
C5_ReleaseGrows ==
    last.op = "drop" =>
        /\ size(values, last.t) = last.before + 1
        /\ size(values, last.t) = last.base + last.run

C5_Witness ==
    /\ last.op = "drop"
    /\ last.run >= 2
    /\ size(values, last.t) = last.base + last.run
    /\ size(values, last.t) > settings.starting_size

(* C6 as stated: detached() lowers size() by one; the value it returns is  *)
(* in no storage and no handle while its caller holds it, and its drop     *)
(* leaves size() alone.                                                    *)
C6_Original ==
    /\ last.op = "detached" => size(values, last.t) = last.before - 1
    /\ \A o \in raw : o.id \notin Ids(StoredObjs \cup handles)
    /\ last.op = "drop_raw" => size(values, last.t) = last.before

(* C6 amended: detached() lowers size() by one when the calling thread's   *)
(* storage holds a value and leaves it 0 when the storage is empty; the    *)
(* value it returns is in no storage and no handle while its caller holds  *)
(* it, however many get/drop cycles follow, and its drop leaves size()     *)
(* alone.                                                                  *)
C6_DetachedLeaves ==
    /\ last.op = "detached" =>
            size(values, last.t) = IF last.before > 0 THEN last.before - 1 ELSE 0
    /\ \A o \in raw : o.id \notin Ids(StoredObjs \cup handles)
    /\ last.op = "drop_raw" =>
            /\ size(values, last.t) = last.before
            /\ last.obj.id \notin Ids(StoredObjs \cup handles \cup raw)

C6_Witness ==
    /\ last.op = "drop"
    /\ last.bal >= 0
    /\ \E o \in raw : o.by = "item"

(* C7: attach leaves the storage of every thread as it was; the drop of    *)
(* the handle of an attached value raises the dropping thread's size() by  *)
(* one.                                                                    *)
C7_AttachFrame ==
    [][/\ IsStep("attach") => values' = values
       /\ (IsStep("drop") /\ last'.obj.by = "attach") =>
              /\ size(values', last'.t) = size(values, last'.t) + 1
              /\ \A u \in Threads \ {last'.t} : size(values', u) = size(values, u)]_vars

C7_Witness ==
    /\ last.op = "drop"
    /\ last.obj.by = "attach"
    /\ last.obj.val = "ten"
    /\ size(values, last.t) = last.before + 1

(* C8: right after build_with(items) with starting size s the building     *)
(* thread's size() is max(len(items), s): the items are stored in the      *)
(* order given, and s - len(items) fresh objects are added when            *)
(* len(items) < s, none otherwise.                                         *)
C8_BuildWithSize ==
    last.op = "build_with" =>
        LET n == Len(seed)
            s == settings.starting_size
            st == Stored(last.t)
        IN  /\ size(values, last.t) = Max(n, s)
            /\ Len(st) >= n
            /\ \A i \in 1..n : i <= Len(st) => st[i].by = "item" /\ st[i].val = seed[i]
            /\ Cardinality({i \in 1..Len(st) : st[i].by # "item"})
                    = IF n < s THEN s - n ELSE 0

C8_Witness ==
    /\ last.op = "build_with"
    /\ Len(seed) = 1
    /\ settings.starting_size = 2
    /\ size(values, Main) = 2

(* C9: the i-th of the get() calls that follow build_with(items) on the    *)
(* building thread, no handle dropped, returns a fresh top-up object for   *)
(* i <= max(0, s - len(items)), and after those the items from the last to *)
(* the first, each with the content it was given with.                     *)
C9_AcquireOrder ==
    (last.op = "get" /\ last.first) =>
        LET n == Len(seed)
            r == Max(0, settings.starting_size - n)
            i == last.run
        IN  /\ i <= r =>
                    /\ last.hit
                    /\ last.obj.by = FreshBy
                    /\ last.obj.val = FreshVal
            /\ (r < i /\ i <= r + n) =>
                    /\ last.hit
                    /\ last.obj.by = "item"
                    /\ last.obj.val = seed[n - (i - r) + 1]

C9_Witness ==
    /\ last.op = "get"
    /\ last.first
    /\ last.run = 2
    /\ Len(seed) = 2
    /\ last.obj.val = seed[1]

(* C10: with a supplier configured every fresh construction is the         *)
(* supplier's: the objects build() and build_with() fill the storage with, *)
(* and the object get() or detached() makes on an empty storage;           *)
(* Recyclable::new() constructs only when no supplier is configured.       *)
C10_SupplierConstructs ==
    pc = "pool" =>
        /\ \A o \in StoredObjs \cup handles \cup raw :
                /\ o.by = "supplier" => settings.supplier # "None"
                /\ o.by = "new" => settings.supplier = "None"
        /\ last.op \in {"build", "build_with"} =>
                \A o \in StoredObjs : o.by # "item" => o.by = FreshBy /\ o.val = FreshVal
        /\ (last.op \in {"get", "detached"} /\ ~last.hit) =>
                last.obj.by = FreshBy /\ last.obj.val = FreshVal

C10_Witness ==
    /\ settings.supplier # "None"
    /\ last.op = "get"
    /\ ~last.hit
    /\ last.obj.val = "test"
    /\ \E o \in raw : o.by = "supplier" /\ o.val = "test"

(* The fresh objects the build added to the items it was given. *)
InitialFill == Max(settings.starting_size, Len(seed)) - Len(seed)

(* C11: the supplier is never used for reset. The drop of a handle stores  *)
(* the same object with the content recycle() gives it, the empty string,  *)
(* whatever the supplier yields; an object dropped and acquired again has  *)
(* that content; and the supplier has been called once for each fresh      *)
(* construction, those of the initial fill and those of acquisitions on an *)
(* empty storage, and never when there is none configured.                 *)
C11_SupplierNeverResets ==
    /\ last.op = "drop" =>
           LET top == Stored(last.t)[Len(Stored(last.t))]
           IN  /\ top.id = last.obj.id
               /\ top.by = last.obj.by
               /\ top.val = Recyclable_new
    /\ (last.op = "get" /\ last.was # NoVal) => last.obj.val = Recyclable_new
    /\ pc = "pool" =>
           IF settings.supplier # "None"
           THEN count.supplier = InitialFill + count.fresh /\ count.new = 0
           ELSE count.supplier = 0 /\ count.new = InitialFill + count.fresh

C11_Witness ==
    /\ settings.supplier # "None"
    /\ last.op = "get"
    /\ last.obj.by = "supplier"
    /\ last.was = call_supplier(settings.supplier)
    /\ last.obj.val = Recyclable_new
    /\ count.supplier = 2
    /\ count.fresh = 1

(* The sum of the lengths of the per-thread storages. *)
FreeSum == Cardinality(UNION {{<<t, i>> : i \in 1..size(values, t)} : t \in Threads})

(* That sum when the run of cycles began. *)
StartSum == Cardinality(UNION {{<<t, i>> : i \in 1..cycle.start[t]} : t \in Threads})

(* Every thread of the run has finished its cycles. *)
Finished == cycle.on /\ \A t \in Threads : cycle.left[t] = 0 /\ cycle.held[t] = 0

(* C12 as stated: when every thread has performed its m cycles of get()    *)
(* and drop of that handle, the sum of the per-thread free counts equals   *)
(* the sum before the run, under every interleaving.                       *)
C12_Original == Finished => FreeSum = StartSum

(* C12 amended: when every thread has performed its m >= 1 cycles, the sum *)
(* of the per-thread free counts is the sum before the run plus one for    *)
(* each thread whose own storage was empty when the run began; a thread    *)
(* whose storage held an object ends with the length it started with.      *)
C12_ConcurrentBalance ==
    Finished =>
        /\ FreeSum = StartSum + Cardinality({t \in Threads : cycle.start[t] = 0})
        /\ \A t \in Threads :
               size(values, t) = IF cycle.start[t] = 0 THEN 1 ELSE cycle.start[t]

C12_Witness ==
    /\ Finished
    /\ cycle.m = MaxCycles
    /\ cycle.start[Main] > 0
    /\ FreeSum = StartSum + 1

(* C13: size() called on any thread of the pool equals the sum of the      *)
(* lengths of all the per-thread storages at that instant.                 *)
C13_SizeIsSum == pc = "pool" => \A t \in Threads : size(values, t) = FreeSum

(* C14: the drop of a handle on thread B, wherever the handle was          *)
(* acquired, resets the object and pushes it onto B's storage: B's free    *)
(* count grows by one, and the storage of every other thread, that of the  *)
(* acquiring thread A included, is left as it was.                         *)
C14_CrossThreadRelease ==
    [][IsStep("drop") =>
          LET B == last'.t
          IN  /\ get_or(values', B)[B] = Append(Stored(B), recycle(last'.obj))
              /\ size(values', B) = size(values, B) + 1
              /\ \A A \in Threads \ {B} :
                     /\ A \in DOMAIN values' <=> A \in DOMAIN values
                     /\ A \in DOMAIN values => values'[A] = values[A]]_vars

C14_Witness ==
    /\ last.op = "drop"
    /\ last.got = Main
    /\ last.t = "worker"
    /\ last.obj.val = "b"
    /\ Stored("worker") = <<[last.obj EXCEPT !.val = Recyclable_new]>>
    /\ Len(Stored(Main)) = 1

(* C15: a thread's storage is last-in-first-out. After a thread dropped    *)
(* the handles of x1, ..., xj in that order, its next acquisitions, with   *)
(* no drop in between, return xj, ..., x1 in that order: the i-th of them, *)
(* for i <= j, pops the stored x(j-i+1), before any older stored object    *)
(* and before any fresh construction.                                      *)
C15_Lifo ==
    (last.op = "get" /\ last.run <= Len(last.stack)) =>
        /\ last.hit
        /\ last.obj.id = last.stack[Len(last.stack) - last.run + 1]
        /\ last.obj.id \notin Ids(objects(values))

C15_Witness ==
    /\ last.op = "get"
    /\ last.run = 2
    /\ Len(last.stack) = 2
    /\ last.stack[1] # last.stack[2]
    /\ last.obj.id = last.stack[1]

(* C16: get() never blocks and never fails. In every reachable state of    *)
(* the pool, whatever handles and values other threads hold, get() can run *)
(* to completion on every thread and yields a handle: it waits for no      *)
(* other thread. (The model constructs at most MaxObjects objects, so a    *)
(* get() that must construct is looked at while one more is allowed.)      *)
C16_GetNeverBlocks ==
    pc = "pool" =>
        \A t \in Threads :
            (size(values, t) > 0 \/ nextId <= MaxObjects) =>
                ENABLED (get(t) /\ handles' # handles /\ UNCHANGED <<cycle, borrow, calls, panic>>)

C16_Witness ==
    /\ last.op = "get"
    /\ last.t = "worker"
    /\ Cardinality(handles) = 1
    /\ size(values, Main) = 0
    /\ nextId <= MaxObjects
    /\ ENABLED (get(Main) /\ handles' # handles /\ UNCHANGED <<cycle, borrow, calls, panic>>)

(* The places of the per-thread storages: thread and index. *)
StoredAt == UNION {{<<t, i>> : i \in 1..Len(Stored(t))} : t \in Threads}

(* C17: exclusive ownership. In every reachable state each object is in at *)
(* most one place: held by one live handle, stored once in one thread's    *)
(* storage, or detached. No object is held by two handles, stored twice    *)
(* (in one storage or in two), or both stored and held or detached.        *)
C17_ExclusiveOwnership ==
    /\ \A p, q \in StoredAt :
           p # q => Stored(p[1])[p[2]].id # Stored(q[1])[q[2]].id
    /\ \A h, g \in handles \cup raw : h # g => h.id # g.id
    /\ Ids(handles) \cap Ids(StoredObjs) = {}
    /\ Ids(raw) \cap Ids(StoredObjs) = {}
    /\ Ids(handles) \cap Ids(raw) = {}

C17_Witness ==
    /\ Cardinality(handles) = 1
    /\ Len(Stored("worker")) = 1
    /\ Len(Stored(Main)) = 0
    /\ last.op = "get"
    /\ last.hit
    /\ last.t = Main

(* C18: single release. The drop of a handle, whether get() or attach()    *)
(* made it, takes the value out of the handle and stores it exactly once:  *)
(* after the drop the handle is no more, so it cannot store its object a   *)
(* second time, and the object is in the storage of the dropping thread,   *)
(* once, and nowhere else.                                                 *)
C18_SingleRelease ==
    last.op = "drop" =>
        /\ last.obj.id \notin Ids(handles)
        /\ last.obj.id \notin Ids(raw)
        /\ Cardinality({p \in StoredAt : Stored(p[1])[p[2]].id = last.obj.id}) = 1
        /\ Stored(last.t)[Len(Stored(last.t))].id = last.obj.id

C18_Witness ==
    /\ last.op = "drop"
    /\ last.obj.by = "attach"
    /\ Cardinality(handles) = 1
    /\ \E h \in handles : h.by = "new"
    /\ Stored(last.t) = <<[last.obj EXCEPT !.val = Recyclable_new]>>

(* C19: acquire is local to the caller's partition. get() and detached()   *)
(* on thread A pop from A's storage or construct, and leave the storage of *)
(* every other thread as it was; when A's storage is empty, A constructs a *)
(* fresh object, whatever spare objects other threads' storages hold.      *)
C19_AcquireLocal ==
    [][(IsStep("get") \/ IsStep("detached")) =>
          LET A == last'.t
          IN  /\ \A B \in Threads \ {A} :
                     /\ B \in DOMAIN values' <=> B \in DOMAIN values
                     /\ B \in DOMAIN values => values'[B] = values[B]
              /\ Stored(A) = <<>> =>
                     /\ ~last'.hit
                     /\ last'.obj = [id |-> nextId, val |-> FreshVal, by |-> FreshBy]
                     /\ get_or(values', A)[A] = <<>>
              /\ Stored(A) # <<>> =>
                     /\ last'.hit
                     /\ last'.obj = Stored(A)[Len(Stored(A))]
                     /\ get_or(values', A)[A] = SubSeq(Stored(A), 1, Len(Stored(A)) - 1)]_vars

C19_Witness ==
    /\ last.op = "get"
    /\ last.t = "worker"
    /\ ~last.hit
    /\ last.obj.id = 2
    /\ handles = {last.obj}
    /\ Stored("worker") = <<>>
    /\ Len(Stored(Main)) = 1

C21_NoBorrowConflict ==
    \A t \in Threads :
        /\ calls[t] # <<>> => borrow[t] = 0
        /\ panic[t] = "none"

(* The objects the pool accounts for: those stored and those held by a     *)
(* live handle.                                                            *)
StoredLen(t) == IF t \in DOMAIN values THEN Len(values[t]) ELSE 0

Held == StoredLen(Main) + StoredLen("worker") + Cardinality(handles)

HeldIds == Ids(objects(values)) \cup Ids(handles)

(* C22: conservation of objects. The sum of the per-thread storage lengths *)
(* plus the number of live handles equals the population created at build  *)
(* plus the get() calls that found the caller's storage empty plus the     *)
(* attach() calls less the detached() calls that found it non-empty. The   *)
(* calls are counted as they happen: the sum is 0 before the build, and    *)
(* every operation changes it by exactly what it adds to those counts. No  *)
(* operation but a detached() that pops takes an object out of the         *)
(* storages and the handles, and that one takes out the object it returns. *)
C22_Conservation ==
    [][LET op == IF last' # last THEN last'.op ELSE "size"
       IN  /\ pc = "builder" => Held = 0
           /\ Held' - Held =
                  (CASE op \in {"build", "build_with"} ->
                         Max(settings'.starting_size, Len(seed'))
                  [] op = "get" /\ ~last'.hit -> 1
                  [] op = "attach" -> 1
                  [] op = "detached" /\ last'.hit -> -1
                  [] OTHER -> 0)
           /\ HeldIds \ HeldIds' =
               IF op = "detached" /\ last'.hit THEN {last'.obj.id} ELSE {}]_vars

C22_Witness ==
    /\ last.op = "detached"
    /\ last.hit
    /\ last.obj.by = "item"
    /\ seed = <<"a">>
    /\ FreeSum = 0
    /\ Cardinality(handles) = 1
    /\ \E h \in handles : h.by = "attach"
    /\ Held = 1

(* C23: an attached value is reset on release like any acquired one. The   *)
(* get() that follows the drop of a handle on the same thread returns the  *)
(* object just dropped, and when that object was given to attach() with a  *)
(* content other than the default, the get() returns it with the content   *)
(* of Recyclable::new(), not with what was attached.                       *)
C23_AttachedReset ==
    (last.op = "get" /\ last.run = 1 /\ last.stack # <<>>) =>
        /\ last.hit
        /\ last.obj.id = last.stack[Len(last.stack)]
        /\ last.was # NoVal
        /\ last.obj.by = "attach" => last.obj.val = Recyclable_new

C23_Witness ==
    /\ last.op = "get"
    /\ last.run = 1
    /\ last.stack = <<last.obj.id>>
    /\ last.obj.by = "attach"
    /\ last.was = "ten"
    /\ last.was # Recyclable_new
    /\ last.obj.val = Recyclable_new
====
